---------------------------- MODULE Spec2Model ----------------------------
(***************************************************************************)
(* Model of xicurry/text-analysis-app: the batch crawler (crawler.py), the *)
(* batch word-frequency program (text_proc.py) and the word-frequency part *)
(* of the Streamlit page (app.py).                                         *)
(*                                                                         *)
(* A text is represented by the sequence of its lexemes; a lexeme (and a   *)
(* token) is a sequence of characters, each character a one-element name:  *)
(* "wo","men" stand for the CJK characters of a word, "2","0" are digits,  *)
(* " " and "NL" are the space and the line feed, "," is a punctuation      *)
(* mark.  jieba is an external library; jieba.lcut is modelled by what it  *)
(* does on such a text: it returns the lexemes in order, every whitespace  *)
(* character a token of its own, adjacent digit runs joined in one token.  *)
(***************************************************************************)
EXTENDS Integers, Sequences, FiniteSets, TLC

VARIABLES
    flow,          \* which program runs: "batch" (text_proc.py) or "app" (app.py)
    pc,            \* position in that program
    file_idx,      \* read_text_files: index into file_nums of the next file
    docs,          \* read_text_files: the contents of the files read so far
    text,          \* total_text / raw_text (batch), text (app)
    min_freq,      \* app.py: the slider's value
    top_n,         \* the top_n argument of the ranking
    words,         \* filtered_words (text_proc) / valid_words = words (app)
    word_freq,     \* full_word_freq (text_proc) / word_freq (app), insertion-ordered
    top_words,     \* top_20_words (text_proc) / top20_words (app)
    report,        \* what the run produced: "none", "words.txt", "page"
    all_text,      \* parse_page alone: the text of the page given to it
    result,        \* parse_page alone: what it returned
    target_urls,   \* crawl_and_save: the number of URLs of the list
    idx,           \* crawl_and_save: the loop's idx
    cpc,           \* crawl_and_save: position in the loop's body
    html_content,  \* crawl_and_save: what get_web_page returned
    page_text,     \* crawl_and_save: what parse_page returned
    files,         \* the files new1.txt, new2.txt, ... (Absent: no such file)
    log            \* the fetches and sleeps, then the file reads, so far, in order

freqVars == <<flow, pc, file_idx, docs, text, min_freq, top_n, words, word_freq,
              top_words, report>>
parseVars == <<all_text, result>>
crawlVars == <<target_urls, idx, cpc, html_content, page_text, files, log>>
vars == <<freqVars, parseVars, crawlVars>>

---------------------------------------------------------------------------
(* Bounds of the model *)

\* the longest text (in lexemes) a file or a fetched page holds
MaxTokens == 3
\* the slider values the model tries: 1..MaxMinFreq (the slider allows 1..10)
MaxMinFreq == 2
\* the small top_n values the model tries besides the programs' own 20
MaxTopN == 2

\* the most lines a page's text holds
MaxLines == 3
\* the longest URL list the model tries (the programs take 1 to 5 URLs)
MaxUrls == 2

(* Program constants *)

\* if len(final_text) < 50
MinTextLen == 50

\* top_n=20 in text_proc's main, most_common(20) in app.py
TopN == 20
\* file_nums=[1, 2, 3]
NumFiles == 3

---------------------------------------------------------------------------
(* Characters, lexemes and texts *)

Digits == {"0", "2"}
Whitespace == {" ", "NL"}
Punctuation == {","}

\* a space, a line feed, a punctuation mark
SP == <<" ">>
NL == <<"NL">>
PUNCT == <<",">>
\* a stopword of one character, a number, a stopword of two characters and
\* two words that are no stopwords
de == <<"de">>
n20 == <<"2", "0">>
women == <<"wo", "men">>
pingguo == <<"ping", "guo">>
fabu == <<"fa", "bu">>
\* one HTML tag, as the pattern <.*?> matches it
TAG == <<"<", "br", ">">>

\* what the text of a page or of a file is made of (extracted text: it
\* holds no tag)
Lexemes == {de, n20, women, pingguo, fabu, PUNCT}

RECURSIVE SeqsUpTo(_, _)
SeqsUpTo(S, n) ==
    IF n = 0 THEN {<<>>}
    ELSE LET shorter == SeqsUpTo(S, n - 1)
         IN  shorter \cup {Append(s, x) : s \in {t \in shorter : Len(t) = n - 1}, x \in S}

\* the texts of at most n lexemes, for n up to MaxTokens
TextsUpTo == [n \in 0 .. MaxTokens |-> SeqsUpTo(Lexemes, n)]

Texts == TextsUpTo[MaxTokens]

\* the file does not exist (FileNotFoundError) or cannot be read
NoFile == <<(<<"NoFile">>)>>

\* STOP_WORDS, restricted to the model's vocabulary (and one word outside it)
STOP_WORDS == {de, women, <<"yi", "ge">>}

Range(s) == {s[i] : i \in DOMAIN s}

\* str.isdigit: non-empty and every character a digit
isdigit(word) == Len(word) > 0 /\ \A i \in DOMAIN word : word[i] \in Digits

\* str.isspace: non-empty and every character whitespace
isspace(word) == Len(word) > 0 /\ \A i \in DOMAIN word : word[i] \in Whitespace

ispunct(word) == Len(word) > 0 /\ \A i \in DOMAIN word : word[i] \in Punctuation

---------------------------------------------------------------------------
(* text_proc.py: cleaning *)

\* re.sub(r'<.*?>', '', text): every tag is deleted
remove_html_tags(t) == SelectSeq(t, LAMBDA x : x # TAG)

RECURSIVE CollapseSpace(_)
\* re.sub(r'\s+', ' ', text): every run of whitespace becomes one space
CollapseSpace(t) ==
    IF t = <<>> THEN <<>>
    ELSE LET rest == CollapseSpace(Tail(t))
         IN  IF isspace(Head(t))
             THEN IF rest # <<>> /\ Head(rest) = SP THEN rest ELSE <<SP>> \o rest
             ELSE <<Head(t)>> \o rest

\* str.strip() of a text whose whitespace runs are single spaces
StripText(t) ==
    LET l == IF t # <<>> /\ isspace(Head(t)) THEN Tail(t) ELSE t
    IN  IF l # <<>> /\ isspace(l[Len(l)]) THEN SubSeq(l, 1, Len(l) - 1) ELSE l

\* punctuation deleted, whitespace runs collapsed, the ends stripped
remove_punctuation(t) ==
    StripText(CollapseSpace(SelectSeq(t, LAMBDA x : ~ispunct(x))))

---------------------------------------------------------------------------
(* jieba.lcut and collections.Counter *)

RECURSIVE lcut(_)
\* The tokens of a text, in order.  Adjacent digit runs are one token (the
\* text holds no character between them).
lcut(t) ==
    IF t = <<>> THEN <<>>
    ELSE LET rest == lcut(Tail(t))
         IN  IF isdigit(Head(t)) /\ rest # <<>> /\ isdigit(Head(rest))
             THEN <<Head(t) \o Head(rest)>> \o Tail(rest)
             ELSE <<Head(t)>> \o rest

\* A Counter is a dict: a sequence of <<key, count>> in insertion order.
Keys(c) == {c[i][1] : i \in DOMAIN c}

\* c[w], 0 for a missing key
CountOf(c, w) ==
    IF w \in Keys(c) THEN c[CHOOSE i \in DOMAIN c : c[i][1] = w][2] ELSE 0

IncrBroken(c, w) ==
    IF w \in Keys(c)
    THEN c
    ELSE Append(c, <<w, 1>>)

\* c[w] += 1: a new key goes to the end, an old one keeps its place
Incr(c, w) ==
    IF w \in Keys(c)
    THEN [i \in DOMAIN c |-> IF c[i][1] = w THEN <<w, c[i][2] + 1>> ELSE c[i]]
    ELSE Append(c, <<w, 1>>)

RECURSIVE Counter(_)
\* Counter(ws): the elements of ws counted in the order they come
Counter(ws) ==
    IF ws = <<>> THEN <<>>
    ELSE Incr(Counter(SubSeq(ws, 1, Len(ws) - 1)), ws[Len(ws)])

\* the index of the entry most_common yields first: the largest count, and
\* among equal counts the earliest inserted
FirstMaxLast(c) ==
    CHOOSE i \in DOMAIN c :
        /\ \A j \in DOMAIN c : c[j][2] <= c[i][2]
        /\ \A j \in DOMAIN c : c[j][2] = c[i][2] => j <= i

FirstMax(c) ==
    CHOOSE i \in DOMAIN c :
        /\ \A j \in DOMAIN c : c[j][2] <= c[i][2]
        /\ \A j \in DOMAIN c : c[j][2] = c[i][2] => i <= j

Remove(c, i) == SubSeq(c, 1, i - 1) \o SubSeq(c, i + 1, Len(c))

RECURSIVE most_common(_, _)
\* Counter.most_common(n) = heapq.nlargest(n, items, key=count): the n
\* entries of largest count, by count descending, equal counts in
\* insertion order
most_common(c, n) ==
    IF n <= 0 \/ c = <<>> THEN <<>>
    ELSE LET i == FirstMax(c)
         IN  <<c[i]>> \o most_common(Remove(c, i), n - 1)

---------------------------------------------------------------------------
(* text_proc.py: analyze_word_frequency *)

text_procKeepNoDigitTest(word) == Len(word) > 1

\* the filter of analyze_word_frequency: longer than 1 and not all digits
text_procKeep(word) == Len(word) > 1 /\ ~isdigit(word)

\* filtered_words
filtered_words(t) == SelectSeq(lcut(t), text_procKeep)

\* analyze_word_frequency(text, top_n) = <<top_words, full_word_freq>>
analyze_word_frequency(t, n) ==
    IF t = <<>> THEN <<(<<>>), (<<>>)>>
    ELSE LET word_counter == Counter(filtered_words(t))
         IN  <<most_common(word_counter, n), word_counter>>

---------------------------------------------------------------------------
(* app.py: segment_text, get_word_freq *)

\* INVALID_CHAR_REG.sub(" ", text) on one lexeme: every character that is
\* not a CJK character, a letter or a digit becomes a space
ReplaceLexeme(x) ==
    IF ispunct(x) \/ isspace(x) THEN <<SP>> ELSE <<x>>

RECURSIVE ReplaceInvalid(_)
ReplaceInvalid(t) ==
    IF t = <<>> THEN <<>>
    ELSE ReplaceLexeme(Head(t)) \o ReplaceInvalid(Tail(t))

\* the filter of segment_text
appKeep(word) == Len(word) > 1 /\ word \notin STOP_WORDS /\ ~isspace(word)

\* segment_text(text): valid_words
segment_text(t) == SelectSeq(lcut(ReplaceInvalid(t)), appKeep)

get_word_freqStrict(ws, mf) ==
    SelectSeq(Counter(ws), LAMBDA e : e[2] > mf)

\* get_word_freq(words, min_freq): the entries of Counter(words) with
\* count >= min_freq, in their order
get_word_freq(ws, mf) ==
    SelectSeq(Counter(ws), LAMBDA e : e[2] >= mf)

---------------------------------------------------------------------------
(* crawler.py: parse_page.  BeautifulSoup is an external library: a page   *)
(* is given by the text soup.get_text(separator='\n', strip=True) returns  *)
(* for it, a sequence of characters.                                       *)

None == <<"None">>

Rep(c, n) == [i \in 1 .. n |-> c]

\* The lines a page's text is made of.  Short lines: a run of one letter,
\* bare or with a blank at each end; two of them joined by a line feed
\* measure MinTextLen - 1, MinTextLen or MinTextLen + 1.  Long lines: alone
\* they measure MinTextLen - 1 or MinTextLen.  And the empty and the blank
\* line.
RawLines ==
    {Rep(" ", pad) \o Rep(c, n) \o Rep(" ", pad) :
        c \in {"a", "b"},
        n \in {0, (MinTextLen \div 2) - 1, MinTextLen \div 2},
        pad \in {0, 1}}
    \cup {Rep("c", n) : n \in {MinTextLen - 1, MinTextLen}}

RECURSIVE JoinLines(_)
\* '\n'.join(lines)
JoinLines(lines) ==
    IF lines = <<>> THEN <<>>
    ELSE IF Len(lines) = 1 THEN lines[1]
    ELSE lines[1] \o <<"NL">> \o JoinLines(Tail(lines))

\* the texts of at most n lines
PagesOf(n) == {JoinLines(ls) : ls \in SeqsUpTo(RawLines, n)}

AllTexts == PagesOf(MaxLines)

RECURSIVE split(_)
\* text.split('\n'): the pieces between the line feeds ('' gives [''])
split(t) ==
    IF \A i \in DOMAIN t : t[i] # "NL" THEN <<t>>
    ELSE LET k == CHOOSE i \in DOMAIN t :
                      t[i] = "NL" /\ \A j \in 1 .. i - 1 : t[j] # "NL"
         IN  <<SubSeq(t, 1, k - 1)>> \o split(SubSeq(t, k + 1, Len(t)))

\* str.strip(): without the whitespace at both ends
strip(line) ==
    IF \A i \in DOMAIN line : line[i] \in Whitespace THEN <<>>
    ELSE LET first == CHOOSE i \in DOMAIN line :
                          line[i] \notin Whitespace
                          /\ \A j \in 1 .. i - 1 : line[j] \in Whitespace
             last == CHOOSE i \in DOMAIN line :
                          line[i] \notin Whitespace
                          /\ \A j \in i + 1 .. Len(line) : line[j] \in Whitespace
         IN  SubSeq(line, first, last)

RECURSIVE UniqueLinesKeepLast(_)
UniqueLinesKeepLast(raw) ==
    IF raw = <<>> THEN <<>>
    ELSE LET stripped_line == strip(Head(raw))
             rest == UniqueLinesKeepLast(Tail(raw))
         IN  IF stripped_line # <<>> /\ stripped_line \notin Range(rest)
             THEN <<stripped_line>> \o rest
             ELSE rest

RECURSIVE UniqueLines(_)
\* the loop of parse_page over all_text.split('\n'): a line is appended,
\* stripped, when it is not empty and not among the lines already kept
UniqueLines(raw) ==
    IF raw = <<>> THEN <<>>
    ELSE LET lines == UniqueLines(SubSeq(raw, 1, Len(raw) - 1))
             stripped_line == strip(raw[Len(raw)])
         IN  IF stripped_line # <<>> /\ stripped_line \notin Range(lines)
             THEN Append(lines, stripped_line)
             ELSE lines

\* final_text
final_text(t) == JoinLines(UniqueLines(split(t)))

parse_pageOffByOne(t) ==
    IF t = <<>> THEN None
    ELSE IF Len(final_text(t)) <= MinTextLen THEN None
    ELSE final_text(t)

\* parse_page: None for an empty page and for a text shorter than 50
parse_page(t) ==
    IF t = <<>> THEN None
    ELSE IF Len(final_text(t)) < MinTextLen THEN None
    ELSE final_text(t)

\* one call of parse_page
ParsePage ==
    /\ result = <<"not called">>
    /\ result' = parse_page(all_text)
    /\ UNCHANGED all_text
    /\ UNCHANGED <<freqVars, crawlVars>>

---------------------------------------------------------------------------
(* The two programs *)

\* the top_n values tried: a small one, which cuts the ranking, and the
\* programs' own
TopNs == {MaxTopN, TopN}
MinFreqs == 1 .. MaxMinFreq

\* the lexemes of a text that are not line feeds
Size(t) == Len(SelectSeq(t, LAMBDA x : x # NL))

RECURSIVE read_text_files(_)
\* what read_text_files returns when the files that can be read hold the
\* contents ds: every content with a line feed after it
read_text_files(ds) ==
    IF ds = <<>> THEN <<>> ELSE Head(ds) \o <<NL>> \o read_text_files(Tail(ds))

\* read_text_files: one turn of the loop over file_nums.  The file is
\* missing or unreadable (skipped), or its content joins total_text with a
\* line feed after it.  The files hold at most MaxTokens lexemes together.
ReadFile ==
    /\ flow = "batch" /\ pc = "read"
    /\ \E content \in TextsUpTo[MaxTokens - Size(text)] \cup {NoFile} :
        IF content = NoFile
        THEN UNCHANGED <<docs, text>>
        ELSE /\ docs' = Append(docs, content)
             /\ text' = text \o content \o <<NL>>
    /\ file_idx' = file_idx + 1
    /\ pc' = IF file_idx = NumFiles THEN "main" ELSE "read"
    /\ UNCHANGED <<flow, min_freq, top_n, words, word_freq, top_words, report>>
    /\ UNCHANGED <<parseVars, crawlVars>>

\* text_proc main: if not raw_text: exit()
MainNoText ==
    /\ flow = "batch" /\ pc = "main" /\ text = <<>>
    /\ pc' = "exit"
    /\ UNCHANGED <<flow, file_idx, docs, text, min_freq, top_n, words, word_freq,
                   top_words, report>>
    /\ UNCHANGED <<parseVars, crawlVars>>

\* the cleaned text of text_proc's main
clean_text(raw_text) == remove_punctuation(remove_html_tags(raw_text))

\* text_proc main, steps 2 to 5: clean, analyze, print
MainAnalyze ==
    /\ flow = "batch" /\ pc = "main" /\ text # <<>>
    /\ \E n \in TopNs :
        LET res == analyze_word_frequency(clean_text(text), n)
        IN  /\ top_n' = n
            /\ words' = filtered_words(clean_text(text))
            /\ top_words' = res[1]
            /\ word_freq' = res[2]
    /\ pc' = "save"
    /\ UNCHANGED <<flow, file_idx, docs, text, min_freq, report>>
    /\ UNCHANGED <<parseVars, crawlVars>>

\* text_proc main, step 6: save_word_freq_to_file writes words.txt
\* whatever the table holds (an IOError is printed, nothing is written)
MainSave ==
    /\ flow = "batch" /\ pc = "save"
    /\ \E io_error \in BOOLEAN :
        report' = IF io_error THEN "none" ELSE "words.txt"
    /\ pc' = "done"
    /\ UNCHANGED <<flow, file_idx, docs, text, min_freq, top_n, words, word_freq,
                   top_words>>
    /\ UNCHANGED <<parseVars, crawlVars>>

\* app.py, the button: a blank URL is warned about, nothing else happens
AppBlankUrl ==
    /\ flow = "app" /\ pc = "button"
    /\ pc' = "stopped"
    /\ UNCHANGED <<flow, file_idx, docs, text, min_freq, top_n, words, word_freq,
                   top_words, report>>
    /\ UNCHANGED <<parseVars, crawlVars>>

\* fetch_url_content(url): "" when the request failed, else the title, a
\* space, and the text of every content tag with a space after it.  The
\* page's text t is all in its title, or all in one content tag.
fetch_url_content(t, request_failed, in_title) ==
    IF request_failed THEN <<>>
    ELSE IF in_title THEN t \o <<SP>>
    ELSE <<SP>> \o t \o (IF t = <<>> THEN <<>> ELSE <<SP>>)

\* step 1: text = fetch_url_content(url); if not text: st.stop()
AppFetch ==
    /\ flow = "app" /\ pc = "button"
    /\ \E t \in Texts, request_failed \in BOOLEAN, in_title \in BOOLEAN :
        /\ text' = fetch_url_content(t, request_failed, in_title)
        /\ pc' = IF text' = <<>> THEN "stopped" ELSE "segment"
    /\ UNCHANGED <<flow, file_idx, docs, min_freq, top_n, words, word_freq,
                   top_words, report>>
    /\ UNCHANGED <<parseVars, crawlVars>>

\* step 2: words = segment_text(text); if not words: st.stop()
AppSegment ==
    /\ flow = "app" /\ pc = "segment"
    /\ words' = segment_text(text)
    /\ pc' = IF words' = <<>> THEN "stopped" ELSE "freq"
    /\ UNCHANGED <<flow, file_idx, docs, text, min_freq, top_n, word_freq,
                   top_words, report>>
    /\ UNCHANGED <<parseVars, crawlVars>>

\* step 3: word_freq = get_word_freq(words, min_freq);
\* if not word_freq: st.stop()
AppFreq ==
    /\ flow = "app" /\ pc = "freq"
    /\ word_freq' = get_word_freq(words, min_freq)
    /\ pc' = IF word_freq' = <<>> THEN "stopped" ELSE "rank"
    /\ UNCHANGED <<flow, file_idx, docs, text, min_freq, top_n, words,
                   top_words, report>>
    /\ UNCHANGED <<parseVars, crawlVars>>

AppRankRaw ==
    /\ flow = "app" /\ pc = "rank"
    /\ top_words' = most_common(Counter(words), TopN)
    /\ report' = "page"
    /\ pc' = "done"
    /\ UNCHANGED <<flow, file_idx, docs, text, min_freq, top_n, words, word_freq>>
    /\ UNCHANGED <<parseVars, crawlVars>>

\* step 4 and the display: top20_words = word_freq.most_common(20), then
\* the ranking and the chart are put on the page
AppRank ==
    /\ flow = "app" /\ pc = "rank"
    /\ top_words' = most_common(word_freq, TopN)
    /\ report' = "page"
    /\ pc' = "done"
    /\ UNCHANGED <<flow, file_idx, docs, text, min_freq, top_n, words, word_freq>>
    /\ UNCHANGED <<parseVars, crawlVars>>

---------------------------------------------------------------------------
(* crawler.py: crawl_and_save *)

\* what get_web_page returns for a URL that answers: pages of one line
CrawlPages == PagesOf(1)

\* the numbers of the files new{i}.txt: those crawl_and_save can write and
\* those read_text_files reads
FileNums == 1 .. (IF MaxUrls > NumFiles THEN MaxUrls ELSE NumFiles)

\* new{i}.txt does not exist
Absent == <<"Absent">>

\* the content an earlier run left in a file
OldText == Rep("o", MinTextLen)

\* the next turn of the for loop, or its end
NextUrl ==
    /\ idx' = idx + 1
    /\ cpc' = IF idx = target_urls THEN "done" ELSE "fetch"

FetchAbortsOnFailure ==
    /\ cpc = "fetch"
    /\ \E r \in CrawlPages \cup {None} :
        /\ html_content' = r
        /\ IF r = None \/ r = <<>>
           THEN cpc' = "done" /\ idx' = idx
           ELSE cpc' = "parse" /\ idx' = idx
    /\ log' = Append(log, <<"fetch", idx>>)
    /\ UNCHANGED <<target_urls, page_text, files>>
    /\ UNCHANGED <<freqVars, parseVars>>

\* html_content = get_web_page(url): the page's text, or None when the
\* request failed (every exception is caught there);
\* if not html_content: continue
Fetch ==
    /\ cpc = "fetch"
    /\ \E r \in CrawlPages \cup {None} :
        /\ html_content' = r
        /\ IF r = None \/ r = <<>>
           THEN NextUrl
           ELSE cpc' = "parse" /\ idx' = idx
    /\ log' = Append(log, <<"fetch", idx>>)
    /\ UNCHANGED <<target_urls, page_text, files>>
    /\ UNCHANGED <<freqVars, parseVars>>

ParseOpensTheFileFirst ==
    /\ cpc = "parse"
    /\ \E raised \in BOOLEAN :
        page_text' = IF raised THEN None ELSE parse_page(html_content)
    /\ IF page_text' = None
       THEN NextUrl /\ files' = [files EXCEPT ![idx] = <<>>]
       ELSE cpc' = "save" /\ idx' = idx /\ files' = files
    /\ UNCHANGED <<target_urls, html_content, log>>
    /\ UNCHANGED <<freqVars, parseVars>>

\* page_text = parse_page(html_content), None too when the parser raised;
\* if not page_text: continue
Parse ==
    /\ cpc = "parse"
    /\ \E raised \in BOOLEAN :
        page_text' = IF raised THEN None ELSE parse_page(html_content)
    /\ IF page_text' = None
       THEN NextUrl
       ELSE cpc' = "save" /\ idx' = idx
    /\ UNCHANGED <<target_urls, html_content, files, log>>
    /\ UNCHANGED <<freqVars, parseVars>>

\* what a write that raised IOError after open(filename, 'w') had truncated
\* the file can leave of the text t: nothing, or a part of it
Truncated(t) == {SubSeq(t, 1, n) : n \in {0, Len(t) \div 2}}

\* save_data(page_text, idx): new{idx}.txt is overwritten with the text.
\* When the write raises IOError (it is printed), the file is as it was
\* (open failed) or truncated (the write failed after open).
Save ==
    /\ cpc = "save"
    /\ \E written \in {page_text, files[idx]} \cup Truncated(page_text) :
        files' = [files EXCEPT ![idx] = written]
    /\ cpc' = "sleep"
    /\ UNCHANGED <<target_urls, idx, html_content, page_text, log>>
    /\ UNCHANGED <<freqVars, parseVars>>

\* time.sleep(1), the last statement of the loop's body
Sleep ==
    /\ cpc = "sleep"
    /\ log' = Append(log, <<"sleep">>)
    /\ NextUrl
    /\ UNCHANGED <<target_urls, html_content, page_text, files>>
    /\ UNCHANGED <<freqVars, parseVars>>

---------------------------------------------------------------------------
(* text_proc.py run after crawler.py, on the files the crawl left *)

RECURSIVE LinesAsLexemes(_)
\* the lines ls as a text: each line that is not empty is one lexeme (the
\* lines of the files here are runs of one letter), with a line feed
\* between two lines
LinesAsLexemes(ls) ==
    IF ls = <<>> THEN <<>>
    ELSE (IF Head(ls) = <<>> THEN <<>> ELSE <<Head(ls)>>)
         \o (IF Len(ls) = 1 THEN <<>> ELSE <<NL>>)
         \o LinesAsLexemes(Tail(ls))

\* text = f.read() of a file that holds content
file_text(content) == LinesAsLexemes(split(content))

\* python text_proc.py is started once crawl_and_save has returned
RunTextProc ==
    /\ flow = "batch" /\ pc = "idle" /\ cpc = "done"
    /\ pc' = "read"
    /\ UNCHANGED <<flow, file_idx, docs, text, min_freq, top_n, words, word_freq,
                   top_words, report>>
    /\ UNCHANGED <<parseVars, crawlVars>>

\* read_text_files: one turn of the loop over file_nums, on the files of the
\* crawl.  new{file_idx}.txt is missing (FileNotFoundError) or cannot be
\* read (Exception), and is skipped, or its content joins total_text with a
\* line feed after it.  log notes which of the two happened.
ReadSavedFile ==
    /\ flow = "batch" /\ pc = "read" /\ cpc = "done"
    /\ \E unreadable \in BOOLEAN :
        IF files[file_idx] = Absent \/ unreadable
        THEN /\ UNCHANGED <<docs, text>>
             /\ log' = Append(log, <<"skip", file_idx>>)
        ELSE /\ docs' = Append(docs, file_text(files[file_idx]))
             /\ text' = text \o file_text(files[file_idx]) \o <<NL>>
             /\ log' = Append(log, <<"read", file_idx>>)
    /\ file_idx' = file_idx + 1
    /\ pc' = IF file_idx = NumFiles THEN "main" ELSE "read"
    /\ UNCHANGED <<flow, min_freq, top_n, words, word_freq, top_words, report>>
    /\ UNCHANGED <<target_urls, idx, cpc, html_content, page_text, files>>
    /\ UNCHANGED parseVars

---------------------------------------------------------------------------
(* Specifications *)

FreqNext ==
    \/ ReadFile
    \/ MainNoText
    \/ MainAnalyze
    \/ MainSave
    \/ AppBlankUrl
    \/ AppFetch
    \/ AppSegment
    \/ AppFreq
    \/ AppRank

ParseNext == ParsePage

CrawlNext ==
    \/ Fetch
    \/ Parse
    \/ Save
    \/ Sleep

PipelineNext ==
    \/ Fetch
    \/ Parse
    \/ Save
    \/ Sleep
    \/ RunTextProc
    \/ ReadSavedFile

\* text_proc.py's main or app.py's button handler runs; nothing else does
FreqSpecInit ==
    /\ flow \in {"batch", "app"}
    /\ pc = IF flow = "batch" THEN "read" ELSE "button"
    /\ file_idx = 1
    /\ docs = <<>>
    /\ text = <<>>
    /\ min_freq \in IF flow = "app" THEN MinFreqs ELSE {0}
    /\ top_n = TopN
    /\ words = <<>>
    /\ word_freq = <<>>
    /\ top_words = <<>>
    /\ report = "none"
    /\ all_text = <<>> /\ result = <<"idle">>
    /\ target_urls = 0 /\ idx = 1 /\ cpc = "idle" /\ html_content = None
    /\ page_text = None /\ files = [i \in FileNums |-> Absent] /\ log = <<>>

\* parse_page is called on a page text of the bounds; nothing else runs
ParseSpecInit ==
    /\ all_text \in AllTexts
    /\ result = <<"not called">>
    /\ flow = "batch" /\ pc = "idle" /\ file_idx = 1 /\ docs = <<>> /\ text = <<>>
    /\ min_freq = 0 /\ top_n = TopN /\ words = <<>> /\ word_freq = <<>>
    /\ top_words = <<>> /\ report = "none"
    /\ target_urls = 0 /\ idx = 1 /\ cpc = "idle" /\ html_content = None
    /\ page_text = None /\ files = [i \in FileNums |-> Absent] /\ log = <<>>

\* crawl_and_save runs on a list of target_urls URLs; nothing else runs
CrawlSpecInit ==
    /\ target_urls \in 0 .. MaxUrls
    /\ idx = 1
    /\ cpc = IF target_urls = 0 THEN "done" ELSE "fetch"
    /\ html_content = None
    /\ page_text = None
    /\ files \in [FileNums -> {Absent, OldText}]
    /\ log = <<>>
    /\ flow = "batch" /\ pc = "idle" /\ file_idx = 1 /\ docs = <<>> /\ text = <<>>
    /\ min_freq = 0 /\ top_n = TopN /\ words = <<>> /\ word_freq = <<>>
    /\ top_words = <<>> /\ report = "none"
    /\ all_text = <<>> /\ result = <<"idle">>

FreqSpec == FreqSpecInit /\ [][FreqNext]_vars

ParseSpec == ParseSpecInit /\ [][ParseNext]_vars

CrawlSpec == CrawlSpecInit /\ [][CrawlNext]_vars

\* crawler.py runs over files an earlier run may have left, then
\* text_proc.py reads the files
PipelineSpec == CrawlSpecInit /\ [][PipelineNext]_vars

---------------------------------------------------------------------------
(* Properties of the frequency table and the ranking (FreqSpec) *)

\* how often w occurs in the sequence ws
Occ(w, ws) == Cardinality({i \in DOMAIN ws : ws[i] = w})

RECURSIVE TotalOcc(_, _)
\* how often w occurs in the texts ds together
TotalOcc(w, ds) ==
    IF ds = <<>> THEN 0 ELSE Occ(w, Head(ds)) + TotalOcc(w, Tail(ds))

\* the position of the first w in ws
FirstIndex(w, ws) == CHOOSE i \in DOMAIN ws : ws[i] = w /\ \A j \in 1 .. i - 1 : ws[j] # w

Min(a, b) == IF a <= b THEN a ELSE b

\* the run has computed its frequency table
TableReady ==
    \/ flow = "batch" /\ pc \in {"save", "done"}
    \/ flow = "app" /\ pc \in {"rank", "done"}

\* the run has computed its ranking
RankReady ==
    \/ flow = "batch" /\ pc \in {"save", "done"}
    \/ flow = "app" /\ pc = "done"

TableIs(ws, mf) ==
    /\ Cardinality(Keys(word_freq)) = Len(word_freq)
    /\ \A w \in Range(ws) \cup Keys(word_freq) :
          CountOf(word_freq, w) = IF Occ(w, ws) >= mf THEN Occ(w, ws) ELSE 0

RankingOf(mf, n) ==
    /\ \A i \in DOMAIN top_words :
          /\ \E k \in DOMAIN word_freq : word_freq[k] = top_words[i]
          /\ top_words[i][2] >= mf
    /\ \A i, j \in DOMAIN top_words : i # j => top_words[i][1] # top_words[j][1]
    /\ Len(top_words) <= Min(n, Len(word_freq))

C4_RankingOrder ==
    RankReady =>
        LET n == IF flow = "app" THEN TopN ELSE top_n
            listed == {top_words[i][1] : i \in DOMAIN top_words}
        IN  /\ Len(top_words) = Min(n, Len(word_freq))
            /\ \A i, j \in DOMAIN top_words :
                  i < j =>
                      /\ top_words[i][2] >= top_words[j][2]
                      /\ top_words[i][2] = top_words[j][2] =>
                            FirstIndex(top_words[i][1], words)
                                < FirstIndex(top_words[j][1], words)
            /\ \A i \in DOMAIN top_words :
                  top_words[i][2] = Occ(top_words[i][1], words)
            /\ \A k \in DOMAIN word_freq :
                  word_freq[k][1] \notin listed =>
                      \A i \in DOMAIN top_words :
                          /\ top_words[i][2] >= word_freq[k][2]
                          /\ top_words[i][2] = word_freq[k][2] =>
                                FirstIndex(top_words[i][1], words)
                                    < FirstIndex(word_freq[k][1], words)

\* three tokens of equal count, ranked with top_n = MaxTopN: the list is cut
C4_Witness ==
    /\ flow = "batch" /\ pc = "done" /\ top_n = MaxTopN
    /\ Len(word_freq) > top_n
    /\ Len(top_words) = top_n
    /\ \A i, j \in DOMAIN word_freq : word_freq[i][2] = word_freq[j][2]

Reverse(ds) == [i \in DOMAIN ds |-> ds[Len(ds) + 1 - i]]

\* the table text_proc builds from the raw text t
TableOf(t) == analyze_word_frequency(clean_text(t), TopN)[2]

RECURSIVE SumCounts(_, _)
\* the count of w in the tables ts, summed
SumCounts(w, ts) ==
    IF ts = <<>> THEN 0 ELSE CountOf(Head(ts), w) + SumCounts(w, Tail(ts))

\* C5: counting is additive.  The table of the merged files gives every
\* token the sum of its counts in the tables of the files taken one by one,
\* and so does the table of the files merged in the opposite order; and for
\* every split of the filtered token stream in A followed by B, the counts of
\* A and of B add up to the counts of A followed by B and of B followed by A.
C5_CountingAdditive ==
    (flow = "batch" /\ TableReady) =>
        LET each == [i \in DOMAIN docs |-> TableOf(docs[i] \o <<NL>>)]
            opposite == TableOf(read_text_files(Reverse(docs)))
        IN  /\ text = read_text_files(docs)
            /\ \A w \in Lexemes \cup Keys(word_freq) \cup Keys(opposite) :
                  /\ CountOf(word_freq, w) = SumCounts(w, each)
                  /\ CountOf(opposite, w) = SumCounts(w, each)
            /\ \A k \in 0 .. Len(words) :
                  LET A == Counter(SubSeq(words, 1, k))
                      B == Counter(SubSeq(words, k + 1, Len(words)))
                      BA == Counter(SubSeq(words, k + 1, Len(words))
                                        \o SubSeq(words, 1, k))
                  IN  \A w \in Range(words) :
                          /\ CountOf(word_freq, w) = CountOf(A, w) + CountOf(B, w)
                          /\ CountOf(BA, w) = CountOf(A, w) + CountOf(B, w)

\* three files, each holding the same word once: its count is 3
C5_Witness ==
    /\ flow = "batch" /\ pc = "done"
    /\ Len(docs) = NumFiles
    /\ \A i \in DOMAIN docs : Occ(pingguo, docs[i]) = 1
    /\ CountOf(word_freq, pingguo) = NumFiles

\* C9: a run whose thresholded table is empty ends with no ranking and no
\* report artifact, in the Streamlit flow and in the batch flow.
C9_EmptyResultNoReport ==
    (pc \in {"done", "stopped", "exit"} /\ word_freq = <<>>) =>
        (report = "none" /\ top_words = <<>>)

---------------------------------------------------------------------------
(* Properties of parse_page (ParseSpec) *)

RECURSIVE SumLen(_)
\* the lengths of the lines ls, summed
SumLen(ls) == IF ls = <<>> THEN 0 ELSE Len(Head(ls)) + SumLen(Tail(ls))

\* parse_page has returned
Called == result # <<"not called">> /\ result # <<"idle">>

\* C6 as claimed: extraction succeeds if and only if the total character
\* length of the deduplicated lines is >= 50.
C6_AsClaimed ==
    Called =>
        (result # None <=> SumLen(UniqueLines(split(all_text))) >= MinTextLen)

\* C6, amended: parse_page measures the deduplicated text, which is the
\* deduplicated lines joined by line feeds: it returns that text if and only
\* if the lengths of the deduplicated lines plus one for every line feed
\* between two of them come to 50 or more, and None otherwise (49 is
\* rejected, 50 accepted).
C6_LengthFloor ==
    Called =>
        LET lines == UniqueLines(split(all_text))
            total == SumLen(lines) + (IF lines = <<>> THEN 0 ELSE Len(lines) - 1)
        IN  /\ result # None <=> total >= MinTextLen
            /\ result # None => Len(result) = total

\* two lines of 24 and 25 characters: with the line feed the text measures
\* exactly 50 and is accepted
C6_Witness ==
    /\ Called /\ result # None
    /\ Len(result) = MinTextLen
    /\ Len(UniqueLines(split(all_text))) = 2

\* l is the line r without the whitespace at its ends, and is not empty
IsTrimOf(l, r) ==
    /\ l # <<>>
    /\ l[1] \notin Whitespace /\ l[Len(l)] \notin Whitespace
    /\ \E k \in 1 .. Len(r) :
          /\ k + Len(l) - 1 <= Len(r)
          /\ SubSeq(r, k, k + Len(l) - 1) = l
          /\ \A j \in 1 .. Len(r) : (j < k \/ j > k + Len(l) - 1) => r[j] \in Whitespace

\* the first line of raw that l is the trimmed form of
FirstRaw(l, raw) ==
    CHOOSE k \in DOMAIN raw :
        IsTrimOf(l, raw[k]) /\ \A j \in 1 .. k - 1 : ~IsTrimOf(l, raw[j])

\* C7: in a document parse_page returns every line is non-empty after
\* trimming, no line occurs twice, and the lines stand in the order of their
\* first occurrence in the extracted text: a repeated line is dropped, the
\* first one keeps its place (and every line of the extracted text that is
\* not blank is there, trimmed).
C7_DocumentLines ==
    (Called /\ result # None) =>
        LET lines == split(result)
            raw == split(all_text)
        IN  /\ \A i \in DOMAIN lines :
                  /\ \E k \in DOMAIN lines[i] : lines[i][k] \notin Whitespace
                  /\ \E k \in DOMAIN raw : IsTrimOf(lines[i], raw[k])
            /\ \A i, j \in DOMAIN lines : i # j => lines[i] # lines[j]
            /\ \A i, j \in DOMAIN lines :
                  i < j => FirstRaw(lines[i], raw) < FirstRaw(lines[j], raw)
            /\ \A k \in DOMAIN raw :
                  (\E m \in DOMAIN raw[k] : raw[k][m] \notin Whitespace) =>
                      \E i \in DOMAIN lines : IsTrimOf(lines[i], raw[k])

\* a page of three lines, the third a repeat of the first: two lines are left
C7_Witness ==
    /\ Called /\ result # None
    /\ Len(split(all_text)) = 3
    /\ Len(split(result)) = 2
    /\ IsTrimOf(split(result)[1], split(all_text)[1])
    /\ IsTrimOf(split(result)[1], split(all_text)[3])
    /\ split(all_text)[1] # split(all_text)[3]

---------------------------------------------------------------------------
(* Properties of crawl_and_save (CrawlSpec) *)

IsFetch(e) == e[1] = "fetch"

\* the URLs fetched so far, in the order of the fetches
Fetched == [i \in DOMAIN SelectSeq(log, IsFetch) |-> SelectSeq(log, IsFetch)[i][2]]

\* the loop's body has started for the URLs 1 .. Started
Started == IF cpc = "fetch" THEN idx - 1 ELSE IF cpc = "done" THEN target_urls ELSE idx

\* C8: every URL is fetched once, in input order; a URL whose fetch fails or
\* whose extraction returns None is skipped, without a retry and without
\* ending the batch: the run never stops before the end of the list, and at
\* the end every URL of the list has been fetched exactly once.
C8_BatchRunsToTheEnd ==
    /\ Fetched = [i \in 1 .. Started |-> i]
    /\ cpc = "done" => Started = target_urls
    /\ cpc # "done" => idx <= target_urls /\ ENABLED CrawlNext

\* two URLs, both skipped (the second by a failed extraction), and the
\* batch ended after the last URL
C8_Witness ==
    /\ cpc = "done" /\ target_urls >= 2
    /\ log = <<(<<"fetch", 1>>), (<<"fetch", 2>>)>>
    /\ html_content # None /\ page_text = None

\* C10: between two successive fetches there is a pacing delay: whatever
\* failed, no fetch directly follows another fetch.
C10_DelayBetweenFetches ==
    \A i \in 1 .. Len(log) - 1 : IsFetch(log[i]) => ~IsFetch(log[i + 1])

---------------------------------------------------------------------------
(* C11: the files of a crawl, and what text_proc.py reads of them *)

\* the fetch and the extraction of the URL in hand both succeeded
Extracted == html_content \notin {None, <<>>} /\ page_text # None

\* URL i had its turn, and the turn ended before save_data and the sleep
Failed(i) ==
    /\ idx > i
    /\ \E k \in DOMAIN log :
        /\ log[k] = <<"fetch", i>>
        /\ k = Len(log) \/ log[k + 1] # <<"sleep">>

IsRead(e) == e[1] = "read"

\* the numbers of the files read_text_files could read, in order
ReadNums == [k \in DOMAIN SelectSeq(log, IsRead) |-> SelectSeq(log, IsRead)[k][2]]

\* a step changes new{i}.txt only when it is save_data's for URL i, after a
\* fetch and an extraction that succeeded; every other file stays as it is
FilesFrame ==
    \A i \in FileNums :
        files'[i] # files[i] => cpc = "save" /\ i = idx /\ Extracted

\* a fetch and an extraction that succeeded lead to save_data
SaveFollowsSuccess ==
    /\ cpc = "fetch" /\ html_content' \notin {None, <<>>} => cpc' = "parse"
    /\ cpc = "parse" /\ page_text' # None => cpc' = "save" /\ idx' = idx
    /\ cpc = "fetch" /\ html_content' \in {None, <<>>} => cpc' # "parse"
    /\ cpc = "parse" /\ page_text' = None => cpc' # "save"

\* the files a failed URL, or no URL, stands for hold nothing of this run,
\* and the corpus is the contents of the files read, each with a line feed
CorpusOfFiles ==
    /\ \A i \in FileNums :
        Failed(i) \/ (cpc = "done" /\ i > target_urls)
            => files[i] \in {Absent, OldText}
    /\ docs = [k \in DOMAIN ReadNums |-> file_text(files[ReadNums[k]])]
    /\ text = read_text_files(docs)

\* C11 as stated: crawl_and_save writes new{i}.txt if and only if the fetch
\* and the extraction of URL i succeeded and leaves every other file
\* unchanged; a file of an earlier run survives a run in which URL i fails,
\* and read_text_files merges every file that exists into the corpus.
C11_AsClaimed ==
    /\ [][/\ FilesFrame
          /\ SaveFollowsSuccess
          /\ cpc = "save" => files'[idx] = page_text
          /\ pc = "read" /\ files[file_idx] # Absent
                => text' = text \o file_text(files[file_idx]) \o <<NL>>]_vars
    /\ []CorpusOfFiles

\* C11, amended: crawl_and_save changes new{i}.txt only in save_data for
\* URL i, which is reached if and only if the fetch and the extraction of
\* URL i succeeded; the file then holds the extracted text, unless the write
\* raised IOError, which leaves it as it was or truncated.  Every other file
\* is unchanged, so a file of an earlier run survives a run in which URL i
\* fails, and read_text_files merges into the corpus, each with a line feed
\* after it, the files that exist and that it can read, that one included.
C11_StaleFilesMerged ==
    /\ [][/\ FilesFrame
          /\ SaveFollowsSuccess
          /\ cpc = "save"
                => files'[idx] \in {page_text, files[idx]} \cup Truncated(page_text)
          /\ pc = "read" /\ files[file_idx] # Absent
                => \/ text' = text \o file_text(files[file_idx]) \o <<NL>>
                   \/ text' = text /\ log' = Append(log, <<"skip", file_idx>>)
          /\ pc = "read" /\ files[file_idx] = Absent => text' = text]_vars
    /\ []CorpusOfFiles

\* URL 1 failed and new1.txt of the earlier run is in the corpus, before the
\* text the run wrote for URL 2
C11_Witness ==
    /\ pc = "main"
    /\ Failed(1) /\ files[1] = OldText
    /\ ~Failed(2) /\ files[2] = Rep("c", MinTextLen)
    /\ ReadNums = <<1, 2>>
    /\ text = <<OldText, NL, Rep("c", MinTextLen), NL>>

===========================================================================
